---------------------------- MODULE Spec2Model ----------------------------
(***************************************************************************)
(* Model of webapp/go/reaction_handler.go: the two reaction handlers       *)
(* (getReactionsHandler, postReactionHandler) and the response assembly    *)
(* (fillReactionResponse, fillReactionResponses, fillUserResponses) over   *)
(* a relational store with one request-scoped transaction.                 *)
(*                                                                         *)
(* Every handler run is one action.  A run is computed by operators that   *)
(* follow the Go code statement by statement and return the HTTP status,   *)
(* the response body, the final state of the transaction and the log of    *)
(* the statements sent to the store.  Store failures are an input of the   *)
(* run (failAt names the statement that fails, "none" for no failure).     *)
(***************************************************************************)
EXTENDS Integers, Sequences, FiniteSets, TLC

VARIABLES
    reactions,  \* committed rows of table reactions, in insertion order
    nextID,     \* AUTO_INCREMENT counter of table reactions
    clock,      \* the wall clock in seconds, time.Now().Unix()
    res         \* the run of the request being answered: inputs, status,
                \* body, statements, transaction; NoRun between requests

vars == <<reactions, nextID, clock, res>>

----------------------------------------------------------------------------
(* Bounds of the model *)

\* the store assigns at most MaxID reaction identifiers
MaxID == 2

\* the clock runs from 1 to MaxTime
MaxTime == 2

\* longest input list handed directly to fillReactionResponses
MaxFill == 3

----------------------------------------------------------------------------
(* Rows of the tables the reaction flow reads but never writes *)

UsersTable ==
    { [ID |-> 1, Name |-> "alice", DisplayName |-> "Alice", Description |-> "a"],
      [ID |-> 2, Name |-> "bob",   DisplayName |-> "Bob",   Description |-> "b"] }

ThemesTable ==
    { [ID |-> 11, UserID |-> 1, DarkMode |-> TRUE],
      [ID |-> 12, UserID |-> 2, DarkMode |-> FALSE] }

\* icon_hashes JOIN icons: user 1 has an icon, user 2 has none
IconHashRows == { [UserID |-> 1, Hash |-> "sha256-of-icon-1"] }

LivestreamsTable == { [ID |-> 1], [ID |-> 2] }

\* identifiers a session or a path may carry; 3 has no row in either table
UserIDs == {1, 2, 3}
LivestreamIDs == {1, 2, 3}

fallbackImageHash == "fallback-image-hash"

----------------------------------------------------------------------------
(* Go zero values and map lookups *)

ZeroUserModel == [ID |-> 0, Name |-> "", DisplayName |-> "", Description |-> ""]
ZeroThemeModel == [ID |-> 0, UserID |-> 0, DarkMode |-> FALSE]
ZeroUser ==
    [ID |-> 0, Name |-> "", DisplayName |-> "", Description |-> "",
     Theme |-> [ID |-> 0, DarkMode |-> FALSE], IconHash |-> ""]
ZeroLivestream == [ID |-> 0]
EmptyMap == [k \in {} |-> 0]

\* m[k] of a Go map: the zero value when the key is absent
MapGet(m, k, zero) == IF k \in DOMAIN m THEN m[k] ELSE zero

\* the map built by "for _, row := range rows { m[key(row)] = row }"
RowsByID(rows) == [k \in {r.ID : r \in rows} |-> CHOOSE r \in rows : r.ID = k]
RowsByUserID(rows) ==
    [k \in {r.UserID : r \in rows} |-> CHOOSE r \in rows : r.UserID = k]

SeqToSet(s) == {s[i] : i \in 1..Len(s)}

\* make([]int64, n): n zeros
MakeInt64s(n) == [i \in 1..n |-> 0]

\* one statement sent to the store: its kind, its identifier list, its outcome
Stmt(op, ids, ok) == [op |-> op, ids |-> ids, ok |-> ok]


----------------------------------------------------------------------------
(* The store's answers to the read statements *)

\* SELECT * FROM users WHERE id IN (ids)
UsersIn(ids) == {r \in UsersTable : r.ID \in SeqToSet(ids)}
\* SELECT * FROM themes WHERE user_id IN (ids)
ThemesIn(ids) == {r \in ThemesTable : r.UserID \in SeqToSet(ids)}
\* SELECT i.user_id, ih.hash FROM icon_hashes AS ih JOIN icons AS i ... IN (ids)
IconHashesIn(ids) == {r \in IconHashRows : r.UserID \in SeqToSet(ids)}
\* SELECT * FROM livestreams WHERE id IN (ids)
LivestreamsIn(ids) == {r \in LivestreamsTable : r.ID \in SeqToSet(ids)}

\* the value returned by a fill function: error ("" is nil), value, statements
Ret(err, val, log) == [err |-> err, val |-> val, log |-> log]

ErrNoRows == "sql: no rows in result set"

----------------------------------------------------------------------------
(* Collaborators whose code is outside webapp/go/reaction_handler.go *)

\* fillUserResponse: one user model to its response (theme and icon hash
\* resolved for that user, the icon hash falling back to the default)
fillUserResponse(failAt, userModel) ==
    IF failAt = "fillUser" THEN Ret("fillUserResponse", ZeroUser, <<>>)
    ELSE LET theme == MapGet(RowsByUserID(ThemesTable), userModel.ID, ZeroThemeModel)
             hashes == RowsByUserID(IconHashRows)
         IN Ret("", [ID |-> userModel.ID, Name |-> userModel.Name,
                     DisplayName |-> userModel.DisplayName,
                     Description |-> userModel.Description,
                     Theme |-> [ID |-> theme.ID, DarkMode |-> theme.DarkMode],
                     IconHash |-> IF userModel.ID \in DOMAIN hashes
                                  THEN hashes[userModel.ID].Hash
                                  ELSE fallbackImageHash], <<>>)

\* fillLivestreamResponse: one livestream model to its response
fillLivestreamResponse(failAt, livestreamModel) ==
    IF failAt = "fillLivestream" THEN Ret("fillLivestreamResponse", ZeroLivestream, <<>>)
    ELSE Ret("", [ID |-> livestreamModel.ID], <<>>)

\* fillLivestreamResponses: a list of livestream models to their responses
fillLivestreamResponses(failAt, livestreamModels) ==
    IF failAt = "fillLivestream" THEN Ret("fillLivestreamResponses", {}, <<>>)
    ELSE Ret("", {[ID |-> m.ID] : m \in livestreamModels}, <<>>)

----------------------------------------------------------------------------
(* fillUserResponses, reaction_handler.go:223-287 *)

\* the users statement of one call: a single IN query over the whole list
SelectUsersInPerID(userIDs, ok) ==
    [i \in 1..Len(userIDs) |-> Stmt("users_in", <<userIDs[i]>>, ok)]
SelectUsersIn(userIDs, ok) == <<Stmt("users_in", userIDs, ok)>>

\* iconHash, ok := hashMap[id]; if !ok { iconHash = fallbackImageHash }
IconHashForNoFallback(hashMap, id) == MapGet(hashMap, id, "")
IconHashFor(hashMap, id) ==
    IF id \in DOMAIN hashMap THEN hashMap[id] ELSE fallbackImageHash

\* the loop over userIDs that fills userResponseMap
UserResponseMap(userIDs, userMap, themeMap, hashMap) ==
    [id \in SeqToSet(userIDs) |->
        [ID |-> MapGet(userMap, id, ZeroUserModel).ID,
         Name |-> MapGet(userMap, id, ZeroUserModel).Name,
         DisplayName |-> MapGet(userMap, id, ZeroUserModel).DisplayName,
         Description |-> MapGet(userMap, id, ZeroUserModel).Description,
         Theme |-> [ID |-> MapGet(themeMap, id, ZeroThemeModel).ID,
                    DarkMode |-> MapGet(themeMap, id, ZeroThemeModel).DarkMode],
         IconHash |-> IconHashFor(hashMap, id)]]

fillUserResponses(failAt, userIDs) ==
    IF Len(userIDs) = 0 THEN Ret("sqlx.In: empty slice", EmptyMap, <<>>)
    ELSE
    LET q1 == SelectUsersIn(userIDs, failAt # "users")
        q2 == q1 \o <<Stmt("themes_in", userIDs, failAt # "themes")>>
        q3 == q2 \o <<Stmt("icon_hashes_in", userIDs, failAt # "icons")>>
        userMap == RowsByID(UsersIn(userIDs))
        themeMap == RowsByUserID(ThemesIn(userIDs))
        iconHashes == IconHashesIn(userIDs)
        hashMap == [k \in {r.UserID : r \in iconHashes} |->
                      (CHOOSE r \in iconHashes : r.UserID = k).Hash]
    IN IF failAt = "users" THEN Ret("users", EmptyMap, q1)
       ELSE IF failAt = "themes" THEN Ret("themes", EmptyMap, q2)
       ELSE IF failAt = "icons" THEN Ret("icon_hashes", EmptyMap, q3)
       ELSE Ret("", UserResponseMap(userIDs, userMap, themeMap, hashMap), q3)

----------------------------------------------------------------------------
(* fillReactionResponses, reaction_handler.go:169-221 *)

\* userIDs := make([]int64, len(reactionModels)); then one append per record
CollectUserIDs(reactionModels) ==
    MakeInt64s(Len(reactionModels)) \o
        [i \in 1..Len(reactionModels) |-> reactionModels[i].UserID]

\* livestreamIDs := make([]int64, len(reactionModels)); then one append per record
CollectLivestreamIDs(reactionModels) ==
    MakeInt64s(Len(reactionModels)) \o
        [i \in 1..Len(reactionModels) |-> reactionModels[i].LivestreamID]

\* the final loop: reactions[i] is composed from reactionModels[i]
ComposeReactionsReversed(reactionModels, userResps, livestreamMap) ==
    [i \in 1..Len(reactionModels) |->
        LET m == reactionModels[Len(reactionModels) + 1 - i]
        IN [ID |-> m.ID, EmojiName |-> m.EmojiName,
            User |-> MapGet(userResps, m.UserID, ZeroUser),
            Livestream |-> MapGet(livestreamMap, m.LivestreamID, ZeroLivestream),
            CreatedAt |-> m.CreatedAt]]
ComposeReactions(reactionModels, userResps, livestreamMap) ==
    [i \in 1..Len(reactionModels) |->
        [ID |-> reactionModels[i].ID,
         EmojiName |-> reactionModels[i].EmojiName,
         User |-> MapGet(userResps, reactionModels[i].UserID, ZeroUser),
         Livestream |-> MapGet(livestreamMap, reactionModels[i].LivestreamID,
                               ZeroLivestream),
         CreatedAt |-> reactionModels[i].CreatedAt]]

\* the result also carries the user response map, for the properties about it
RetFill(err, val, log, userResps) ==
    [err |-> err, val |-> val, log |-> log, userResps |-> userResps]

fillReactionResponses(failAt, reactionModels) ==
    IF Len(reactionModels) = 0 THEN RetFill("", <<>>, <<>>, EmptyMap)
    ELSE
    LET u == fillUserResponses(failAt, CollectUserIDs(reactionModels))
        livestreamIDs == CollectLivestreamIDs(reactionModels)
        q == u.log \o <<Stmt("livestreams_in", livestreamIDs, failAt # "livestreams")>>
        l == fillLivestreamResponses(failAt, LivestreamsIn(livestreamIDs))
        livestreamMap == RowsByID(l.val)
    IN IF u.err # "" THEN RetFill(u.err, <<>>, u.log, EmptyMap)
       ELSE IF failAt = "livestreams" THEN RetFill("livestreams", <<>>, q, u.val)
       ELSE IF l.err # "" THEN RetFill(l.err, <<>>, q \o l.log, u.val)
       ELSE RetFill("", ComposeReactions(reactionModels, u.val, livestreamMap),
                    q \o l.log, u.val)

----------------------------------------------------------------------------
(* fillReactionResponse, reaction_handler.go:139-167 *)

\* tx.GetContext(... WHERE id = ?): the row, or sql.ErrNoRows, or a store error
GetByID(table, id, op, failAt) ==
    LET rows == {r \in table : r.ID = id}
    IN IF failAt = op THEN Ret("store error", [ID |-> 0], <<Stmt(op, <<id>>, FALSE)>>)
       ELSE IF rows = {} THEN Ret(ErrNoRows, [ID |-> 0], <<Stmt(op, <<id>>, TRUE)>>)
       ELSE Ret("", CHOOSE r \in rows : TRUE, <<Stmt(op, <<id>>, TRUE)>>)

fillReactionResponse(failAt, reactionModel) ==
    LET um == GetByID(UsersTable, reactionModel.UserID, "user_get", failAt)
        user == fillUserResponse(failAt, um.val)
        lm == GetByID(LivestreamsTable, reactionModel.LivestreamID,
                      "livestream_get", failAt)
        livestream == fillLivestreamResponse(failAt, lm.val)
    IN IF um.err # "" THEN Ret(um.err, <<>>, um.log)
       ELSE IF user.err # "" THEN Ret(user.err, <<>>, um.log \o user.log)
       ELSE IF lm.err # "" THEN Ret(lm.err, <<>>, um.log \o user.log \o lm.log)
       ELSE IF livestream.err # ""
            THEN Ret(livestream.err, <<>>,
                     um.log \o user.log \o lm.log \o livestream.log)
       ELSE Ret("", [ID |-> reactionModel.ID,
                     EmojiName |-> reactionModel.EmojiName,
                     User |-> user.val,
                     Livestream |-> livestream.val,
                     CreatedAt |-> reactionModel.CreatedAt],
                um.log \o user.log \o lm.log \o livestream.log)

----------------------------------------------------------------------------
(* Request text: a string is a sequence of one-character strings *)

Digits == {"0", "1", "2", "3", "4", "5", "6", "7", "8", "9"}
DigitVal(c) ==
    CASE c = "0" -> 0 [] c = "1" -> 1 [] c = "2" -> 2 [] c = "3" -> 3
      [] c = "4" -> 4 [] c = "5" -> 5 [] c = "6" -> 6 [] c = "7" -> 7
      [] c = "8" -> 8 [] c = "9" -> 9
DigitChar(d) ==
    CASE d = 0 -> "0" [] d = 1 -> "1" [] d = 2 -> "2" [] d = 3 -> "3"
      [] d = 4 -> "4" [] d = 5 -> "5" [] d = 6 -> "6" [] d = 7 -> "7"
      [] d = 8 -> "8" [] d = 9 -> "9"

RECURSIVE DigitsValue(_)
DigitsValue(ds) ==
    IF Len(ds) = 0 THEN 0
    ELSE 10 * DigitsValue(SubSeq(ds, 1, Len(ds) - 1)) + DigitVal(ds[Len(ds)])

AllDigits(ds) == Len(ds) > 0 /\ \A i \in 1..Len(ds) : ds[i] \in Digits

\* strconv.Atoi: an optional sign, then one or more decimal digits
Atoi(str) ==
    LET signed == Len(str) > 0 /\ str[1] \in {"+", "-"}
        ds == IF signed THEN Tail(str) ELSE str
    IN IF ~AllDigits(ds) THEN [err |-> TRUE, val |-> 0]
       ELSE [err |-> FALSE,
             val |-> IF signed /\ str[1] = "-" THEN 0 - DigitsValue(ds)
                     ELSE DigitsValue(ds)]

RECURSIVE FormatNat(_)
FormatNat(n) ==
    IF n < 10 THEN <<DigitChar(n)>>
    ELSE FormatNat(n \div 10) \o <<DigitChar(n % 10)>>

\* fmt.Sprintf("%d", n)
FormatInt(n) == IF n < 0 THEN <<"-">> \o FormatNat(0 - n) ELSE FormatNat(n)

\* the decoded request: a nil pointer, or a pointer to a PostReactionRequest
NilRequest == [nil |-> TRUE, EmojiName |-> ""]
Request(emoji) == [nil |-> FALSE, EmojiName |-> emoji]

\* json.NewDecoder(body).Decode(&req) with req of type *PostReactionRequest.
\* A body is text that is not JSON, the literal null, or an object whose
\* fields are typed values; fields other than emoji_name are ignored.
Decode(body) ==
    CASE body.kind = "invalid" -> [err |-> TRUE, req |-> NilRequest]
      [] body.kind = "null" -> [err |-> FALSE, req |-> NilRequest]
      [] body.kind = "object" ->
            IF "emoji_name" \notin DOMAIN body.fields
            THEN [err |-> FALSE, req |-> Request("")]
            ELSE IF body.fields.emoji_name.t = "string"
            THEN [err |-> FALSE, req |-> Request(body.fields.emoji_name.v)]
            ELSE [err |-> TRUE, req |-> Request("")]

----------------------------------------------------------------------------
(* The reactions table *)

Min(a, b) == IF a < b THEN a ELSE b
Take(s, n) == SubSeq(s, 1, Min(n, Len(s)))

\* the orders ORDER BY created_at ASC would allow
OrderByCreatedAtAsc(rows) ==
    {s \in [1..Cardinality(rows) -> rows] :
        /\ \A i, j \in 1..Cardinality(rows) : i # j => s[i] # s[j]
        /\ \A i, j \in 1..Cardinality(rows) :
              i < j => s[i].CreatedAt <= s[j].CreatedAt}

\* every order of rows that ORDER BY created_at DESC allows: ties in any order
OrderByCreatedAtDesc(rows) ==
    {s \in [1..Cardinality(rows) -> rows] :
        /\ \A i, j \in 1..Cardinality(rows) : i # j => s[i] # s[j]
        /\ \A i, j \in 1..Cardinality(rows) :
              i < j => s[i].CreatedAt >= s[j].CreatedAt}

\* "SELECT * FROM reactions WHERE livestream_id = ? ORDER BY created_at DESC"
\* followed by " LIMIT <text>" when limitText is not empty.  The store rejects
\* a LIMIT that is not an unsigned integer literal.
SelectReactions(table, livestreamID, limitText, failAt) ==
    LET rows == {table[i] : i \in {k \in 1..Len(table) :
                                      table[k].LivestreamID = livestreamID}}
    IN IF failAt = "select" \/ (limitText # <<>> /\ ~AllDigits(limitText))
       THEN {[err |-> TRUE, rows |-> <<>>]}
       ELSE {[err |-> FALSE,
              rows |-> IF limitText = <<>> THEN s
                       ELSE Take(s, DigitsValue(limitText))] :
                s \in OrderByCreatedAtDesc(rows)}

----------------------------------------------------------------------------
(* The request-scoped transaction *)

\* dbConn.BeginTxx
BeginTxx(failAt) ==
    IF failAt = "begin"
    THEN [err |-> TRUE, tx |-> "none", log |-> <<Stmt("begin", <<>>, FALSE)>>]
    ELSE [err |-> FALSE, tx |-> "open", log |-> <<Stmt("begin", <<>>, TRUE)>>]

\* tx.Commit: it commits; or it fails before the transaction is marked done
\* (cancelled context), leaving it open; or the store fails the COMMIT, and
\* the transaction is done without having been committed
Commit(failAt) ==
    IF failAt = "commit_ctx"
    THEN [err |-> TRUE, tx |-> "open", log |-> <<>>]
    ELSE IF failAt = "commit_store"
    THEN [err |-> TRUE, tx |-> "aborted", log |-> <<Stmt("commit", <<>>, FALSE)>>]
    ELSE [err |-> FALSE, tx |-> "committed", log |-> <<Stmt("commit", <<>>, TRUE)>>]

\* one run of a handler
Run(handler, req, status, body, log, tx, rows, fill) ==
    [handler |-> handler, req |-> req, status |-> status, body |-> body,
     log |-> log, tx |-> tx, rows |-> rows, fill |-> fill, panic |-> FALSE]

NoFill == [called |-> FALSE, in |-> <<>>, err |-> "", out |-> <<>>,
           log |-> <<>>, userResps |-> EmptyMap]
Fill(in, f) == [called |-> TRUE, in |-> in, err |-> f.err, out |-> f.val,
                log |-> f.log, userResps |-> f.userResps]

\* defer tx.Rollback(): runs at every exit after BeginTxx succeeded; it rolls
\* an open transaction back and does nothing to one that is already done
DeferRollbackMissing(run) == run
DeferRollback(run) ==
    IF run.tx = "open"
    THEN [run EXCEPT !.tx = "rolledback",
                     !.log = @ \o <<Stmt("rollback", <<>>, TRUE)>>]
    ELSE run

----------------------------------------------------------------------------
(* getReactionsHandler, reaction_handler.go:36-79 *)

\* the part after the limit has been parsed: lines 64-78, for one answer
\* sel of the store to the listing query
GetAfterQuery(req, failAt, b, sel) ==
    LET q == b.log \o <<Stmt("select_reactions", <<>>, ~sel.err)>>
        f == fillReactionResponses(failAt, sel.rows)
        c == Commit(failAt)
    IN IF sel.err
       THEN Run("get", req, 404, <<>>, q, "open", <<>>, NoFill)
       ELSE IF f.err # ""
       THEN Run("get", req, 500, <<>>, q \o f.log, "open", <<>>, Fill(sel.rows, f))
       ELSE IF c.err
       THEN Run("get", req, 500, <<>>, q \o f.log \o c.log, c.tx, <<>>,
                Fill(sel.rows, f))
       ELSE Run("get", req, 200, f.val, q \o f.log \o c.log, c.tx, <<>>,
                Fill(sel.rows, f))

\* the handler with the limit validated only after the listing query has run
getReactionsHandlerLateLimit(table, sess, livestreamParam, limitParam, failAt) ==
    LET req == [sess |-> sess, livestream_id |-> livestreamParam,
                limit |-> limitParam, failAt |-> failAt]
        livestreamID == Atoi(livestreamParam)
        b == BeginTxx(failAt)
        limit == Atoi(limitParam)
        limitText == IF limitParam # <<>> THEN FormatInt(limit.val) ELSE <<>>
    IN IF ~sess
       THEN {Run("get", req, 401, <<>>, <<>>, "none", <<>>, NoFill)}
       ELSE IF livestreamID.err
       THEN {Run("get", req, 400, <<>>, <<>>, "none", <<>>, NoFill)}
       ELSE IF b.err
       THEN {Run("get", req, 500, <<>>, b.log, b.tx, <<>>, NoFill)}
       ELSE IF limitParam # <<>> /\ limit.err
       THEN {DeferRollback(Run("get", req, 400, <<>>,
                               b.log \o <<Stmt("select_reactions", <<>>, TRUE)>>,
                               b.tx, <<>>, NoFill))}
       ELSE {DeferRollback(GetAfterQuery(req, failAt, b, sel)) :
                sel \in SelectReactions(table, livestreamID.val, limitText, failAt)}

\* the set of runs the handler can make on the table, one per answer of the store
getReactionsHandler(table, sess, livestreamParam, limitParam, failAt) ==
    LET req == [sess |-> sess, livestream_id |-> livestreamParam,
                limit |-> limitParam, failAt |-> failAt]
        livestreamID == Atoi(livestreamParam)
        b == BeginTxx(failAt)
        limit == Atoi(limitParam)
        limitText == IF limitParam # <<>> THEN FormatInt(limit.val) ELSE <<>>
    IN IF ~sess
       THEN {Run("get", req, 401, <<>>, <<>>, "none", <<>>, NoFill)}
       ELSE IF livestreamID.err
       THEN {Run("get", req, 400, <<>>, <<>>, "none", <<>>, NoFill)}
       ELSE IF b.err
       THEN {Run("get", req, 500, <<>>, b.log, b.tx, <<>>, NoFill)}
       ELSE IF limitParam # <<>> /\ limit.err
       THEN {DeferRollback(Run("get", req, 400, <<>>, b.log, b.tx, <<>>, NoFill))}
       ELSE {DeferRollback(GetAfterQuery(req, failAt, b, sel)) :
                sel \in SelectReactions(table, livestreamID.val, limitText, failAt)}

----------------------------------------------------------------------------
(* postReactionHandler, reaction_handler.go:81-137 *)

\* lines 109-114: the row built from the session's user, the path's
\* livestream, the decoded request and the clock
NewReactionModelNoEmoji(userID, livestreamID, decoded, now) ==
    [ID |-> 0, EmojiName |-> "", UserID |-> userID,
     LivestreamID |-> livestreamID, CreatedAt |-> now]
NewReactionModel(userID, livestreamID, decoded, now) ==
    [ID |-> 0, EmojiName |-> decoded.EmojiName, UserID |-> userID,
     LivestreamID |-> livestreamID, CreatedAt |-> now]

\* lines 115-136: the row is inserted and resolved, the transaction committed
PostAfterBegin(req, failAt, b, id, userID, livestreamID, decoded, now) ==
    LET reactionModel == NewReactionModel(userID, livestreamID, decoded, now)
        ins == b.log \o <<Stmt("insert_reaction", <<>>, failAt # "insert")>>
        inserted == [reactionModel EXCEPT !.ID = id]
        f == fillReactionResponse(failAt, inserted)
        c == Commit(failAt)
    IN IF decoded.nil
       THEN [Run("post", req, 0, <<>>, b.log, "open", <<>>, NoFill)
                EXCEPT !.panic = TRUE]
       ELSE IF failAt = "insert"
       THEN Run("post", req, 500, <<>>, ins, "open", <<>>, NoFill)
       ELSE IF failAt = "lastid"
       THEN Run("post", req, 500, <<>>, ins, "open", <<inserted>>, NoFill)
       ELSE IF f.err # ""
       THEN Run("post", req, 500, <<>>, ins \o f.log, "open", <<inserted>>, NoFill)
       ELSE IF c.err
       THEN Run("post", req, 500, <<>>, ins \o f.log \o c.log, c.tx,
                <<inserted>>, NoFill)
       ELSE Run("post", req, 201, <<f.val>>, ins \o f.log \o c.log, c.tx,
                <<inserted>>, NoFill)

\* id is the identifier the store assigns to the next inserted row, userID the
\* identity held by the session, now the value of time.Now().Unix()
postReactionHandler(id, sess, userID, livestreamParam, body, now, failAt) ==
    LET req == [sess |-> sess, userID |-> userID, livestream_id |-> livestreamParam,
                body |-> body, now |-> now, failAt |-> failAt]
        livestreamID == Atoi(livestreamParam)
        d == Decode(body)
        b == BeginTxx(failAt)
    IN IF livestreamID.err
       THEN Run("post", req, 400, <<>>, <<>>, "none", <<>>, NoFill)
       ELSE IF ~sess
       THEN Run("post", req, 401, <<>>, <<>>, "none", <<>>, NoFill)
       ELSE IF d.err
       THEN Run("post", req, 400, <<>>, <<>>, "none", <<>>, NoFill)
       ELSE IF b.err
       THEN Run("post", req, 500, <<>>, b.log, b.tx, <<>>, NoFill)
       ELSE DeferRollback(PostAfterBegin(req, failAt, b, id, userID,
                                         livestreamID.val, d.req, now))

----------------------------------------------------------------------------
(* Inputs *)

LivestreamParams == {<<"1">>, <<"2">>, <<"3">>, <<"x">>}
LimitParams ==
    {<<>>, <<"a", "b", "c">>, <<"-", "1">>, <<"0">>, <<"1">>, <<"+", "1">>, <<"2">>}
Str(v) == [t |-> "string", v |-> v]
Num(v) == [t |-> "number", v |-> v]
BodyTada == [kind |-> "object", fields |-> [emoji_name |-> Str(":tada:")]]
BodyNull == [kind |-> "null"]
Bodies ==
    { [kind |-> "invalid"],
      BodyNull,
      BodyTada,
      [kind |-> "object", fields |-> [emoji_name |-> Str(""), user_id |-> Num(2)]],
      [kind |-> "object", fields |-> [emoji_name |-> Num(1)]] }
GetFailures ==
    {"begin", "select", "users", "themes", "icons", "livestreams",
     "fillLivestream", "commit_ctx", "commit_store"}
PostFailures ==
    {"begin", "insert", "lastid", "user_get", "fillUser",
     "livestream_get", "fillLivestream", "commit_ctx", "commit_store"}
FillFailures ==
    {"none", "users", "themes", "icons", "livestreams", "fillLivestream"}

\* list requests: every path and limit without store failure, and every store
\* failure on livestream 1 with no limit, a limit of 1 and a malformed limit
GetRequests ==
    {[sess |-> FALSE, ls |-> <<"1">>, limit |-> <<>>, failAt |-> "none"]}
    \cup {[sess |-> TRUE, ls |-> l, limit |-> m, failAt |-> "none"] :
            l \in LivestreamParams, m \in LimitParams}
    \cup {[sess |-> TRUE, ls |-> <<"1">>, limit |-> m, failAt |-> f] :
            m \in {<<>>, <<"1">>, <<"a", "b", "c">>}, f \in GetFailures}

\* post requests: every user, path and body without store failure, and every
\* store failure for user 1 on livestream 1 with a valid and with a null body
PostRequests ==
    {[sess |-> FALSE, userID |-> 1, ls |-> <<"1">>, body |-> BodyTada,
      failAt |-> "none"]}
    \cup {[sess |-> TRUE, userID |-> u, ls |-> l, body |-> b, failAt |-> "none"] :
            u \in UserIDs, l \in LivestreamParams, b \in Bodies}
    \cup {[sess |-> TRUE, userID |-> 1, ls |-> <<"1">>, body |-> b, failAt |-> f] :
            b \in {BodyTada, BodyNull}, f \in PostFailures}

\* the reaction records handed directly to fillReactionResponses: the
\* identifiers of a list are a permutation of 1..n, and each record refers to
\* one of these (user, livestream) pairs
FillEmoji(i) == IF i % 2 = 1 THEN ":tada:" ELSE ":+1:"
FillRefs == (UserIDs \X {1, 3}) \cup {<<1, 2>>}
FillRow(i, ref) ==
    [ID |-> i, EmojiName |-> FillEmoji(i), UserID |-> ref[1],
     LivestreamID |-> ref[2], CreatedAt |-> 1 + (i % 2)]
FillPerms(n) == {q \in [1..n -> 1..n] : \A i, j \in 1..n : i # j => q[i] # q[j]}
FillInput(n, p, refs) == [i \in 1..n |-> FillRow(p[i], refs[i])]

NoRun == Run("none", <<>>, 0, <<>>, <<>>, "none", <<>>, NoFill)

----------------------------------------------------------------------------
(* The system: requests are served one after the other *)

Init ==
    /\ reactions = <<>>
    /\ nextID = 1
    /\ clock = 1
    /\ res = NoRun

\* GET /livestreams/:livestream_id/reaction
GetReactions ==
    /\ res = NoRun
    /\ \E r \in GetRequests :
        \E run \in getReactionsHandler(reactions, r.sess, r.ls, r.limit, r.failAt) :
            res' = run
    /\ UNCHANGED <<reactions, nextID, clock>>

\* POST /livestreams/:livestream_id/reaction
PostReaction ==
    /\ res = NoRun
    /\ nextID <= MaxID
    /\ \E r \in PostRequests :
        LET run == postReactionHandler(nextID, r.sess, r.userID, r.ls, r.body,
                                       clock, r.failAt)
        IN /\ res' = run
           /\ reactions' = IF run.tx = "committed" THEN reactions \o run.rows
                           ELSE reactions
           /\ nextID' = nextID + Len(run.rows)
    /\ UNCHANGED clock

\* the answer has been sent; the next request can be served
Respond ==
    /\ res # NoRun
    /\ res' = NoRun
    /\ UNCHANGED <<reactions, nextID, clock>>

\* a second passes
Tick ==
    /\ res = NoRun
    /\ clock < MaxTime
    /\ clock' = clock + 1
    /\ UNCHANGED <<reactions, nextID, res>>

Next == GetReactions \/ PostReaction \/ Respond \/ Tick

Spec == Init /\ [][Next]_vars

----------------------------------------------------------------------------
(* fillReactionResponses on its own, applied to every bounded input list *)

FillReactions ==
    /\ res = NoRun
    /\ \E n \in 0..MaxFill, failAt \in FillFailures :
        \E p \in FillPerms(n), refs \in [1..n -> FillRefs] :
            LET in == FillInput(n, p, refs)
                f == fillReactionResponses(failAt, in)
            IN res' = Run("fill", [failAt |-> failAt], 0, f.val, f.log, "open",
                          <<>>, Fill(in, f))
    /\ UNCHANGED <<reactions, nextID, clock>>

NextFill == FillReactions \/ Respond

SpecFill == Init /\ [][NextFill]_vars

----------------------------------------------------------------------------
(* Properties of fillReactionResponses and fillUserResponses *)

\* how many statements of kind op a run sent to the store
Count(log, op) == Cardinality({i \in 1..Len(log) : log[i].op = op})
BulkOps == {"users_in", "themes_in", "icon_hashes_in", "livestreams_in"}
FillN == Len(res.fill.in)
ReferencedUsers == {res.fill.in[i].UserID : i \in 1..FillN}
ReferencedLivestreams == {res.fill.in[i].LivestreamID : i \in 1..FillN}

\* C1 as stated: for every call of fillReactionResponses, an empty input
\* gives an empty result and no statement, and a non-empty input gives
\* exactly one users, one themes, one icon-hash and one livestreams query.
C1_ExactlyOneQueryPerTypeInEveryCall ==
    res.fill.called =>
        /\ FillN = 0 => (res.fill.out = <<>> /\ res.fill.log = <<>>)
        /\ FillN >= 1 => \A op \in BulkOps : Count(res.fill.log, op) = 1

\* C1 amended: an empty input gives an empty result and no statement; a
\* non-empty input gives at most one query of each of the four types whatever
\* its length, always the users query, exactly one of each type when the call
\* succeeds, and a query is missing only when an earlier statement failed.
C1_QueriesIndependentOfN ==
    res.fill.called =>
        /\ FillN = 0 =>
              (res.fill.out = <<>> /\ res.fill.log = <<>> /\ res.fill.err = "")
        /\ FillN >= 1 =>
              /\ \A op \in BulkOps : Count(res.fill.log, op) <= 1
              /\ Count(res.fill.log, "users_in") = 1
              /\ Len(res.fill.log) <= 4
              /\ res.fill.err = "" =>
                    \A op \in BulkOps : Count(res.fill.log, op) = 1
              /\ (\A i \in 1..Len(res.fill.log) : res.fill.log[i].ok) =>
                    \A op \in BulkOps : Count(res.fill.log, op) = 1

\* C1 witness: a successful call on three records of two users and two livestreams
C1_Witness ==
    /\ res.fill.called /\ res.fill.err = "" /\ FillN = 3
    /\ Cardinality(ReferencedUsers) = 2
    /\ Cardinality(ReferencedLivestreams) = 2
    /\ Len(res.fill.log) = 4

\* C2: when fillReactionResponses succeeds on N records the output has N
\* elements and output[i] carries the id, emoji name and timestamp of
\* input[i], the user response of input[i].UserID and the livestream response
\* of input[i].LivestreamID (the zero value when the store has no such row).
C2_OutputMirrorsInput ==
    (res.fill.called /\ res.fill.err = "") =>
        /\ Len(res.fill.out) = FillN
        /\ \A i \in 1..FillN :
              LET in == res.fill.in[i]
                  out == res.fill.out[i]
              IN /\ out.ID = in.ID
                 /\ out.EmojiName = in.EmojiName
                 /\ out.CreatedAt = in.CreatedAt
                 /\ out.User = res.fill.userResps[in.UserID]
                 /\ out.User.ID =
                        IF \E u \in UsersTable : u.ID = in.UserID
                        THEN in.UserID ELSE 0
                 /\ out.Livestream =
                        IF \E l \in LivestreamsTable : l.ID = in.LivestreamID
                        THEN [ID |-> in.LivestreamID] ELSE ZeroLivestream

\* C2 witness: a successful call on three records whose identifiers are not
\* in ascending order and that refer to different users and livestreams
C2_Witness ==
    /\ res.fill.called /\ res.fill.err = "" /\ FillN = 3
    /\ res.fill.in[1].ID = 3 /\ res.fill.in[2].ID = 1
    /\ res.fill.in[1].UserID # res.fill.in[3].UserID
    /\ res.fill.in[1].LivestreamID # res.fill.in[2].LivestreamID
    /\ res.fill.out[1].ID = 3

\* C3: in the user response map, a requested user without an icon-hash row
\* has the fallback hash, a requested user with a row has that row's hash,
\* and no entry has an empty hash.
C3_IconHashFallback ==
    (res.fill.called /\ DOMAIN res.fill.userResps # {}) =>
        \A id \in DOMAIN res.fill.userResps :
            LET rows == {r \in IconHashRows : r.UserID = id}
                hash == res.fill.userResps[id].IconHash
            IN /\ rows = {} => hash = fallbackImageHash
               /\ rows # {} => \E r \in rows : hash = r.Hash
               /\ hash # ""

\* C3 witness: the map holds a user with an icon, a user without one and a
\* user without any row
C3_Witness ==
    /\ res.fill.called
    /\ {1, 2, 3} \subseteq DOMAIN res.fill.userResps
    /\ res.fill.userResps[1].IconHash = "sha256-of-icon-1"
    /\ res.fill.userResps[2].IconHash = fallbackImageHash

\* C9 as stated: on a non-empty input the identifier list of the users,
\* themes and icon-hash queries is exactly the set of user identifiers the
\* input refers to, the list of the livestreams query exactly the set of
\* livestream identifiers it refers to, and the user response map has keys
\* only for referenced users.
C9_QueriedIDsAreTheReferencedIDs ==
    (res.fill.called /\ FillN >= 1) =>
        /\ \A i \in 1..Len(res.fill.log) :
              LET st == res.fill.log[i]
              IN /\ st.op \in {"users_in", "themes_in", "icon_hashes_in"} =>
                        SeqToSet(st.ids) = ReferencedUsers
                 /\ st.op = "livestreams_in" =>
                        SeqToSet(st.ids) = ReferencedLivestreams
        /\ DOMAIN res.fill.userResps \subseteq ReferencedUsers

----------------------------------------------------------------------------
(* Properties of the handlers *)

Handled == res.handler \in {"get", "post"}
Begun == \E i \in 1..Len(res.log) : res.log[i].op = "begin" /\ res.log[i].ok
Succeeded == res.status \in {200, 201}
LastStmt == res.log[Len(res.log)]

\* C4: in both handlers a transaction that was begun is ended on every exit:
\* it is committed exactly on the success path, and on every error exit after
\* BeginTxx it is rolled back (or was ended by the failed commit) and never
\* committed, so no inserted row survives a request that returns an error.
C4_TransactionEndedOnEveryExit ==
    Handled =>
        /\ Begun => res.tx \in {"committed", "rolledback", "aborted"}
        /\ ~Begun => res.tx = "none"
        /\ res.tx = "committed" <=> Succeeded
        /\ res.tx = "committed" => (LastStmt.op = "commit" /\ LastStmt.ok)
        /\ res.tx = "rolledback" => LastStmt.op = "rollback"
        /\ res.tx = "aborted" => (LastStmt.op = "commit" /\ ~LastStmt.ok)
        /\ ~Succeeded =>
              \A i \in 1..Len(res.rows), j \in 1..Len(reactions) :
                  reactions[j].ID # res.rows[i].ID

\* C4 witness: a post whose row was inserted, whose assembly then failed, and
\* whose transaction was rolled back
C4_Witness ==
    /\ res.handler = "post" /\ res.status = 500
    /\ Len(res.rows) = 1
    /\ res.tx = "rolledback"
    /\ Count(res.log, "insert_reaction") = 1

\* the rows of the table for the livestream a list request names
Matching == {reactions[i] : i \in {k \in 1..Len(reactions) :
                reactions[k].LivestreamID = Atoi(res.req.livestream_id).val}}

\* C5: a successful list request returns only reactions of the requested
\* livestream, each once, in descending order of creation timestamp; with an
\* integer limit L >= 0 it returns min(L, K) of the K stored ones and none of
\* those left out is newer than a returned one; without a limit it returns K.
C5_ListNewestFirstWithLimit ==
    (res.handler = "get" /\ res.status = 200) =>
        LET K == Cardinality(Matching)
            n == Len(res.body)
            L == Atoi(res.req.limit).val
            returned == {res.body[i].ID : i \in 1..n}
        IN /\ \A i \in 1..n :
                \E r \in Matching :
                    /\ r.ID = res.body[i].ID
                    /\ r.CreatedAt = res.body[i].CreatedAt
                    /\ r.EmojiName = res.body[i].EmojiName
           /\ Cardinality(returned) = n
           /\ \A i, j \in 1..n :
                i < j => res.body[i].CreatedAt >= res.body[j].CreatedAt
           /\ res.req.limit = <<>> => n = K
           /\ res.req.limit # <<>> => (L >= 0 /\ n = Min(L, K))
           /\ \A r \in Matching :
                r.ID \notin returned =>
                    \A i \in 1..n : res.body[i].CreatedAt >= r.CreatedAt

\* C5 witness: limit=1 on a livestream with two reactions created at
\* different times returns the newer one
C5_Witness ==
    /\ res.handler = "get" /\ res.status = 200
    /\ res.req.limit = <<"1">>
    /\ Cardinality(Matching) = 2
    /\ Len(res.body) = 1
    /\ \E r \in Matching : r.CreatedAt < res.body[1].CreatedAt

TxOps == {"begin", "commit", "rollback"}

\* C6: a handler that answers BadRequest has executed no SELECT and no
\* INSERT; a post with a non-integer livestream_id is answered BadRequest
\* before any transaction is opened.
C6_BadRequestBeforeAnySQL ==
    /\ (Handled /\ res.status = 400) =>
          \A i \in 1..Len(res.log) : res.log[i].op \in TxOps
    /\ (res.handler = "post" /\ Atoi(res.req.livestream_id).err) =>
          (res.status = 400 /\ res.log = <<>> /\ res.tx = "none")

\* C6 witness: a list request with a malformed limit, answered BadRequest
\* after the transaction was opened
C6_Witness ==
    /\ res.handler = "get" /\ res.status = 400
    /\ res.req.limit = <<"a", "b", "c">>
    /\ Begun

\* the position of the first statement of kind op in the log, 0 when absent
Pos(log, op) ==
    IF \E i \in 1..Len(log) : log[i].op = op
    THEN CHOOSE i \in 1..Len(log) :
            log[i].op = op /\ \A j \in 1..(i - 1) : log[j].op # op
    ELSE 0

\* C7: a successful post appends exactly one row to the table and answers 201
\* with a reaction whose user is the session's user, whose emoji_name is the
\* submitted string, whose livestream is the one of the path and whose id is
\* the one the store assigned to the row; the row is resolved between the
\* insert and the commit of the one transaction of the request.
C7_SuccessfulPostCreatesOneRow ==
    [][(res'.handler = "post" /\ res'.status = 201) =>
        /\ Len(res'.body) = 1
        /\ reactions' = Append(reactions,
                               [ID |-> nextID,
                                EmojiName |-> res'.req.body.fields.emoji_name.v,
                                UserID |-> res'.req.userID,
                                LivestreamID |-> Atoi(res'.req.livestream_id).val,
                                CreatedAt |-> clock])
        /\ res'.body[1].ID = nextID
        /\ res'.body[1].User.ID = res'.req.userID
        /\ res'.body[1].EmojiName = res'.req.body.fields.emoji_name.v
        /\ res'.body[1].Livestream.ID = Atoi(res'.req.livestream_id).val
        /\ res'.body[1].CreatedAt = clock
        /\ Count(res'.log, "begin") = 1
        /\ Count(res'.log, "insert_reaction") = 1
        /\ Pos(res'.log, "begin") < Pos(res'.log, "insert_reaction")
        /\ Pos(res'.log, "insert_reaction") < Pos(res'.log, "user_get")
        /\ Pos(res'.log, "user_get") < Pos(res'.log, "livestream_get")
        /\ Pos(res'.log, "livestream_get") < Pos(res'.log, "commit")
    ]_vars

\* C7 witness: user 2 posted :tada: on livestream 2 as the second reaction
C7_Witness ==
    /\ res.handler = "post" /\ res.status = 201
    /\ res.req.userID = 2
    /\ res.body[1].User.ID = 2
    /\ res.body[1].EmojiName = ":tada:"
    /\ res.body[1].Livestream.ID = 2
    /\ Len(reactions) = 2
    /\ reactions[2].ID = res.body[1].ID

\* a single-row lookup of the run found no row
ScalarLookupFoundNoRow ==
    \E i \in 1..Len(res.log) :
        /\ res.log[i].ok
        /\ \/ /\ res.log[i].op = "user_get"
              /\ ~\E u \in UsersTable : u.ID = res.log[i].ids[1]
           \/ /\ res.log[i].op = "livestream_get"
              /\ ~\E l \in LivestreamsTable : l.ID = res.log[i].ids[1]

\* a statement of the run failed in the store
StatementFailed == \E i \in 1..Len(res.log) : ~res.log[i].ok

\* C8 as stated: a handler answers NotFound exactly when a required
\* single-row lookup returned zero rows, and every other persistence failure
\* (listing query, bulk query, insert, commit) is answered InternalError.
C8_NotFoundOnlyForMissingRow ==
    Handled =>
        /\ res.status = 404 <=> ScalarLookupFoundNoRow
        /\ StatementFailed => res.status = 500

\* C10 as stated: postReactionHandler never dereferences a nil decoded
\* request: for every body it answers BadRequest or reads emoji_name from a
\* non-nil request.
C10_NoNilRequestDereference ==
    res.handler = "post" => ~res.panic

=============================================================================
